---- MODULE Spec2Model ----
(***************************************************************************)
(* Model of file/sequence_file_reader.cc: the direct-I/O read path of      *)
(* SequentialFileReader and the ReadaheadSequentialFile decorator.         *)
(*                                                                         *)
(* Offsets are byte positions counted from 0.  A file is a sequence of     *)
(* bytes; byte i of the file (0-based) is file_data[i + 1].                *)
(***************************************************************************)
EXTENDS Integers, Sequences, FiniteSets, TLC

\* ------------------------------------------------------------------ bounds
MaxFileLen == 4
MaxReadahead == 4
MaxN == 3
MaxOffset == 6
NumThreads == 2
MaxCalls == 4

Alignments == {1, 2}
Threads == 1..NumThreads

VARIABLES
    \* configuration, fixed after construction
    file_data,          \* content of the raw file
    alignment_,         \* file_->GetRequiredBufferAlignment()
    readahead_size_,    \* ReadaheadSequentialFile::readahead_size_
    direct_io,          \* file_->use_direct_io() of the SequentialFileReader
    target,             \* the object the client drives: "readahead" or "reader"
    \* ReadaheadSequentialFile
    read_offset_, buffer_offset_, buffer_,
    file_pos,           \* position of the wrapped sequential source
    lock_,              \* 0 when free, else the thread holding lock_
    \* SequentialFileReader
    offset_,            \* the atomic logical offset
    raw_pos,            \* position of its raw source (non-direct mode)
    \* observation of calls
    last,               \* the last completed call and what it returned
    delivered,          \* concatenation of the results of the Reads made so far,
                        \* kept while hist = "reads"
    hist,               \* "reads", "readskip" or "any": the calls made so far
    short_fill,         \* a fill returned fewer bytes than readahead_size_
    \* threads (concurrent specifications)
    pc,                 \* where each thread is in its call
    call,               \* the call a thread is in
    local,              \* the locals a thread carries between its steps
    snap,               \* the object as it was when the thread took lock_
    reserved            \* the ranges reserved on offset_, in order

cfgvars == <<file_data, alignment_, readahead_size_, direct_io, target>>
ravars == <<read_offset_, buffer_offset_, buffer_, file_pos>>
dvars == <<offset_, raw_pos>>
obsvars == <<last, delivered, hist, short_fill>>
thrvars == <<pc, call, local, snap, reserved, lock_>>
vars == <<cfgvars, ravars, dvars, obsvars, thrvars>>

\* ----------------------------------------------------------------- helpers
Min(a, b) == IF a <= b THEN a ELSE b

\* Bytes [lo, hi) of s (0-based), empty when hi <= lo.  A position past the
\* valid data of s reads as 0, which is no byte of any file (Content).
Bytes(s, lo, hi) ==
    IF hi <= lo THEN << >>
    ELSE [i \in 1..(hi - lo) |-> IF lo + i \in 1..Len(s) THEN s[lo + i] ELSE 0]

Content(len) == [i \in 1..len |-> i]

FileSize == Len(file_data)

\* util/aligned_buffer.h
Roundup(x, y) == ((x + y - 1) \div y) * y

TruncateToPageBoundary(page_size, s) == s - (s % page_size)

\* ------------------------------------------------------- the wrapped source
\* SequentialFile::Read: all requested bytes up to end-of-file, or a failure.
FileRead(pos, n, fail) ==
    IF fail THEN [ok |-> FALSE, data |-> << >>, pos |-> pos]
    ELSE LET d == Bytes(file_data, pos, Min(pos + n, FileSize))
         IN [ok |-> TRUE, data |-> d, pos |-> pos + Len(d)]

\* SequentialFile::Skip: moves the position, also past end-of-file.
FileSkip(pos, n, fail) ==
    IF fail THEN [ok |-> FALSE, pos |-> pos] ELSE [ok |-> TRUE, pos |-> pos + n]

\* SequentialFile::PositionedRead: stateless.
FilePositionedRead(offset, n, fail) ==
    IF fail THEN [ok |-> FALSE, data |-> << >>]
    ELSE [ok |-> TRUE, data |-> Bytes(file_data, offset, Min(offset + n, FileSize))]

IoCall(name, a, b) == [call |-> name, a |-> a, b |-> b]

\* ---------------------------------------------- ReadaheadSequentialFile
\* The object's mutable state as a record.
RA == [read_offset_ |-> read_offset_, buffer_offset_ |-> buffer_offset_,
       buffer_ |-> buffer_, file_pos |-> file_pos]

CurrentSize(st) == Len(st.buffer_)

Capacity == readahead_size_

BufferEnd(st) == st.buffer_offset_ + CurrentSize(st)

Clear(st) == [st EXCEPT !.buffer_ = << >>]

\* Mutant: the end of a non-empty buffer counts as inside the buffered range.
CacheMiss_PastEnd(st) ==
    \/ CurrentSize(st) = 0
    \/ st.read_offset_ < st.buffer_offset_
    \/ st.read_offset_ > st.buffer_offset_ + CurrentSize(st)

\* TryReadFromCache, lines 179-180.
CacheMiss(st) ==
    \/ st.read_offset_ < st.buffer_offset_
    \/ st.read_offset_ >= st.buffer_offset_ + CurrentSize(st)

\* Mutant: the copy starts at BufferStart() instead of at offset_in_buffer.
TryReadFromCache_FromStart(st, n) ==
    IF CacheMiss(st)
    THEN [hit |-> FALSE, cached_len |-> 0, bytes |-> << >>, st |-> st]
    ELSE LET offset_in_buffer == st.read_offset_ - st.buffer_offset_
             cached_len == Min(CurrentSize(st) - offset_in_buffer, n)
         IN [hit |-> TRUE, cached_len |-> cached_len,
             bytes |-> Bytes(st.buffer_, 0, cached_len),
             st |-> [st EXCEPT !.read_offset_ = @ + cached_len]]

TryReadFromCache(st, n) ==
    IF CacheMiss(st)
    THEN [hit |-> FALSE, cached_len |-> 0, bytes |-> << >>, st |-> st]
    ELSE LET offset_in_buffer == st.read_offset_ - st.buffer_offset_
             cached_len == Min(CurrentSize(st) - offset_in_buffer, n)
         IN [hit |-> TRUE, cached_len |-> cached_len,
             bytes |-> Bytes(st.buffer_, offset_in_buffer, offset_in_buffer + cached_len),
             st |-> [st EXCEPT !.read_offset_ = @ + cached_len]]

\* Mutant: buffer_offset_ is not set to read_offset_ after the fill.
ReadIntoBuffer_NoOffset(st, n, fail) ==
    LET m == IF n > Capacity THEN Capacity ELSE n
        r == FileRead(st.file_pos, m, fail)
    IN [ok |-> r.ok, req |-> m, got |-> Len(r.data),
        st |-> IF r.ok
               THEN [st EXCEPT !.buffer_ = r.data, !.file_pos = r.pos]
               ELSE [st EXCEPT !.file_pos = r.pos]]

\* Lines 195-208.
ReadIntoBuffer(st, n, fail) ==
    LET m == IF n > Capacity THEN Capacity ELSE n
        r == FileRead(st.file_pos, m, fail)
    IN [ok |-> r.ok, req |-> m, got |-> Len(r.data),
        st |-> IF r.ok
               THEN [st EXCEPT !.buffer_offset_ = st.read_offset_,
                               !.buffer_ = r.data, !.file_pos = r.pos]
               ELSE [st EXCEPT !.file_pos = r.pos]]

\* Mutant: only a complete hit returns; a short buffer is not taken as end-of-file.
ReturnFromCache_FullOnly(hit, cached_len, n, st) == hit /\ cached_len = n

\* Read, lines 103-104: the call returns what the cache supplied.
ReturnFromCache(hit, cached_len, n, st) ==
    hit /\ (cached_len = n \/ CurrentSize(st) < readahead_size_)

\* Mutant: the alignment is not counted as slack.
Bypass_NoSlack(n) == n >= readahead_size_

\* Read, line 113.
Bypass(n) == n + alignment_ >= readahead_size_

\* Mutant: the lock is not taken.
LockFree_NoLock(l) == TRUE

\* std::unique_lock<std::mutex> lk(lock_) returns once no thread holds lock_.
LockFree(l) == l = 0

\* Read, lines 98-109.
ReadCachePhase(st, n) ==
    LET c == TryReadFromCache(st, n)
    IN [done |-> ReturnFromCache(c.hit, c.cached_len, n, c.st),
        cached |-> c.bytes, n |-> n - c.cached_len, st |-> c.st]

\* Mutant: the buffer is not cleared after the direct read.
ReadBypass_NoClear(st, cached, n, fail) ==
    LET r == FileRead(st.file_pos, n, fail)
    IN [ok |-> r.ok,
        res |-> IF r.ok THEN cached \o r.data ELSE << >>,
        io |-> <<IoCall("Read", n, 0)>>, fill |-> -1, path |-> "bypass",
        st |-> [st EXCEPT !.read_offset_ = IF r.ok THEN @ + Len(r.data) ELSE @,
                          !.file_pos = r.pos]]

\* Read, lines 114-120.
ReadBypass(st, cached, n, fail) ==
    LET r == FileRead(st.file_pos, n, fail)
    IN [ok |-> r.ok,
        res |-> IF r.ok THEN cached \o r.data ELSE << >>,
        io |-> <<IoCall("Read", n, 0)>>, fill |-> -1, path |-> "bypass",
        st |-> Clear([st EXCEPT !.read_offset_ = IF r.ok THEN @ + Len(r.data) ELSE @,
                               !.file_pos = r.pos])]

\* Mutant: a failed fill is swallowed and the cached prefix returned with OK.
ReadRefill_Swallow(st, cached, n, fail) ==
    LET f == ReadIntoBuffer(st, readahead_size_, fail)
        c == TryReadFromCache(f.st, n)
    IN IF f.ok
       THEN [ok |-> TRUE, res |-> cached \o c.bytes,
             io |-> <<IoCall("Read", f.req, 0)>>, fill |-> f.got, path |-> "refill",
             st |-> c.st]
       ELSE [ok |-> TRUE, res |-> cached,
             io |-> <<IoCall("Read", f.req, 0)>>, fill |-> -1, path |-> "refill",
             st |-> f.st]

\* Read, lines 123-130.
ReadRefill(st, cached, n, fail) ==
    LET f == ReadIntoBuffer(st, readahead_size_, fail)
        c == TryReadFromCache(f.st, n)
    IN IF f.ok
       THEN [ok |-> TRUE, res |-> cached \o c.bytes,
             io |-> <<IoCall("Read", f.req, 0)>>, fill |-> f.got, path |-> "refill",
             st |-> c.st]
       ELSE [ok |-> FALSE, res |-> << >>,
             io |-> <<IoCall("Read", f.req, 0)>>, fill |-> -1, path |-> "refill",
             st |-> f.st]

\* Read, lines 111-130.
ReadFilePhase(st, cached, n, fail) ==
    IF Bypass(n) THEN ReadBypass(st, cached, n, fail)
    ELSE ReadRefill(st, cached, n, fail)

Read(st, n, fail) ==
    LET p == ReadCachePhase(st, n)
    IN IF p.done
       THEN [ok |-> TRUE, res |-> p.cached, io |-> << >>, fill |-> -1, path |-> "cache",
             st |-> p.st]
       ELSE ReadFilePhase(p.st, p.cached, p.n, fail)

\* Mutant: the bytes skipped inside the buffer are not taken off n.
SkipCachePhase_NoDecrement(st, n) ==
    IF CurrentSize(st) > 0
    THEN IF st.read_offset_ + n >= BufferEnd(st)
         THEN [n |-> n, st |-> [st EXCEPT !.read_offset_ = BufferEnd(st)]]
         ELSE [n |-> 0, st |-> [st EXCEPT !.read_offset_ = @ + n]]
    ELSE [n |-> n, st |-> st]

\* Mutant: read_offset_ is set to the start of the buffer instead of its end.
SkipCachePhase_Rewind(st, n) ==
    IF CurrentSize(st) > 0
    THEN IF st.read_offset_ + n >= BufferEnd(st)
         THEN [n |-> n - (BufferEnd(st) - st.read_offset_),
               st |-> [st EXCEPT !.read_offset_ = st.buffer_offset_]]
         ELSE [n |-> 0, st |-> [st EXCEPT !.read_offset_ = @ + n]]
    ELSE [n |-> n, st |-> st]

\* Skip, lines 137-148.
SkipCachePhase(st, n) ==
    IF CurrentSize(st) > 0
    THEN IF st.read_offset_ + n >= BufferEnd(st)
         THEN [n |-> n - (BufferEnd(st) - st.read_offset_),
               st |-> [st EXCEPT !.read_offset_ = BufferEnd(st)]]
         ELSE [n |-> 0, st |-> [st EXCEPT !.read_offset_ = @ + n]]
    ELSE [n |-> n, st |-> st]

\* Mutant: read_offset_ is advanced whether or not the wrapped Skip succeeded.
SkipFilePhase_AlwaysAdvance(st, n, fail) ==
    IF n > 0
    THEN LET r == FileSkip(st.file_pos, n, fail)
         IN [ok |-> r.ok, io |-> <<IoCall("Skip", n, 0)>>,
             st |-> Clear([st EXCEPT !.read_offset_ = @ + n, !.file_pos = r.pos])]
    ELSE [ok |-> TRUE, io |-> << >>, st |-> st]

\* Skip, lines 149-157.
SkipFilePhase(st, n, fail) ==
    IF n > 0
    THEN LET r == FileSkip(st.file_pos, n, fail)
         IN [ok |-> r.ok, io |-> <<IoCall("Skip", n, 0)>>,
             st |-> Clear([st EXCEPT !.read_offset_ = IF r.ok THEN @ + n ELSE @,
                                    !.file_pos = r.pos])]
    ELSE [ok |-> TRUE, io |-> << >>, st |-> st]

Skip(st, n, fail) ==
    LET p == SkipCachePhase(st, n) IN SkipFilePhase(p.st, p.n, fail)

\* Mutant: the buffer is cleared only when the wrapped source reports success.
InvalidateCache_IfOk(st, offset, length, fail) ==
    [ok |-> ~fail, io |-> <<IoCall("InvalidateCache", offset, length)>>,
     st |-> IF fail THEN st ELSE Clear(st)]

\* Lines 165-169.
InvalidateCache(st, offset, length, fail) ==
    [ok |-> ~fail, io |-> <<IoCall("InvalidateCache", offset, length)>>, st |-> Clear(st)]

PositionedRead(st, offset, n, fail) ==
    LET r == FilePositionedRead(offset, n, fail)
    IN [ok |-> r.ok, res |-> r.data, io |-> <<IoCall("PositionedRead", offset, n)>>, st |-> st]

\* Mutant: a source whose alignment equals the requested size is wrapped too.
Wrapped_Strict(alignment, readahead_size) == ~(alignment > readahead_size)

\* NewReadaheadSequentialFile: the readahead sizes for which a decorator is built.
Wrapped(alignment, readahead_size) == ~(alignment >= readahead_size)

\* ------------------------------------------------- SequentialFileReader
\* Mutant: the cursor advances by the bytes available before end-of-file.
FetchAdd_Available(cur, n) ==
    [old |-> cur, new |-> cur + Min(n, IF cur < FileSize THEN FileSize - cur ELSE 0)]

\* Mutant: the value after the addition is taken as the start of the range.
FetchAdd_ReturnsNew(cur, n) == [old |-> cur + n, new |-> cur + n]

\* offset_.fetch_add(n), line 37 (and offset_ += n, line 65).
FetchAdd(cur, n) == [old |-> cur, new |-> cur + n]

\* Mutant: the length copied ignores offset_advance.
CopyLen_NoAdvance(tmp_size, offset_advance, n) == Min(tmp_size, n)

\* Lines 50-51.
CopyLen(tmp_size, offset_advance, n) == Min(tmp_size - offset_advance, n)

\* Mutant: the length of the range is the request length rounded up.
AlignedRange_RoundN(offset, n, alignment) ==
    LET aligned_offset == TruncateToPageBoundary(alignment, offset)
    IN [aligned_offset |-> aligned_offset,
        offset_advance |-> offset - aligned_offset,
        size |-> Roundup(n, alignment)]

\* Read, lines 39-41: the aligned range read for the bytes [offset, offset + n).
AlignedRange(offset, n, alignment) ==
    LET aligned_offset == TruncateToPageBoundary(alignment, offset)
    IN [aligned_offset |-> aligned_offset,
        offset_advance |-> offset - aligned_offset,
        size |-> Roundup(offset + n, alignment) - aligned_offset]

\* Read under direct I/O, lines 37-53, after the reservation of `offset`.
DirectRead(offset, n, fail) ==
    LET range == AlignedRange(offset, n, alignment_)
        aligned_offset == range.aligned_offset
        offset_advance == range.offset_advance
        size == range.size
        tmp == FilePositionedRead(aligned_offset, size, fail)
        r == IF tmp.ok /\ offset_advance < Len(tmp.data)
             THEN CopyLen(Len(tmp.data), offset_advance, n) ELSE 0
    IN [ok |-> tmp.ok,
        res |-> Bytes(tmp.data, offset_advance, offset_advance + r),
        io |-> <<IoCall("PositionedRead", aligned_offset, size)>>]

\* -------------------------------------------------------------------- Init
NoCall == [op |-> "none", n |-> 0, ok |-> TRUE, res |-> << >>, io |-> << >>, fill |-> -1,
           path |-> "none"]

\* A ReadaheadSequentialFile as NewReadaheadSequentialFile builds it.
InitReadahead ==
    /\ target = "readahead"
    /\ file_data \in {Content(len) : len \in 0..MaxFileLen}
    /\ alignment_ \in Alignments
    /\ \E requested \in 1..MaxReadahead :
          /\ Wrapped(alignment_, requested)
          /\ readahead_size_ = Roundup(requested, alignment_)
    /\ direct_io = FALSE

\* A SequentialFileReader over a raw file (no readahead requested).
InitReader ==
    /\ target = "reader"
    /\ file_data \in {Content(len) : len \in 0..MaxFileLen}
    /\ alignment_ \in Alignments
    /\ readahead_size_ = 0
    /\ direct_io \in BOOLEAN

InitConfig == InitReadahead \/ InitReader

InitObjects ==
    /\ read_offset_ = 0 /\ buffer_offset_ = 0 /\ buffer_ = << >> /\ file_pos = 0
    /\ lock_ = 0
    /\ offset_ = 0 /\ raw_pos = 0
    /\ last = NoCall /\ delivered = << >> /\ hist = "reads" /\ short_fill = FALSE
    /\ pc = [t \in Threads |-> "idle"]
    /\ call = [t \in Threads |-> NoCall]
    /\ local = [t \in Threads |-> << >>]
    /\ snap = [t \in Threads |-> << >>]
    /\ reserved = << >>

Init == InitConfig /\ InitObjects

\* ------------------------------------------------- sequential client calls
SetRA(st) ==
    /\ read_offset_' = st.read_offset_
    /\ buffer_offset_' = st.buffer_offset_
    /\ buffer_' = st.buffer_
    /\ file_pos' = st.file_pos

Worse(h, x) == IF h = "any" \/ x = "any" THEN "any"
               ELSE IF h = "readskip" \/ x = "readskip" THEN "readskip" ELSE "reads"

\* A complete Read(n) call by the client.
ReadCall(n, fail) ==
    /\ LET r == Read(RA, n, fail)
       IN /\ (fail => r.io # << >>)
          /\ SetRA(r.st)
          /\ last' = [op |-> "Read", n |-> n, ok |-> r.ok, res |-> r.res,
                      io |-> r.io, fill |-> r.fill, path |-> r.path]
          /\ hist' = IF r.ok THEN hist ELSE "any"
          /\ delivered' = IF hist' = "reads" THEN delivered \o r.res ELSE << >>
          /\ short_fill' = (short_fill \/ (r.fill >= 0 /\ r.fill < readahead_size_))
    /\ UNCHANGED <<cfgvars, dvars, thrvars>>

RARead(n, fail) ==
    /\ target = "readahead"
    /\ read_offset_ + n <= MaxOffset
    /\ ReadCall(n, fail)

RASkip(n, fail) ==
    /\ target = "readahead"
    /\ read_offset_ + n <= MaxOffset
    /\ LET r == Skip(RA, n, fail)
       IN /\ (fail => r.io # << >>)
          /\ SetRA(r.st)
          /\ last' = [op |-> "Skip", n |-> n, ok |-> r.ok, res |-> << >>,
                      io |-> r.io, fill |-> -1, path |-> "none"]
          /\ hist' = IF r.ok THEN Worse(hist, "readskip") ELSE "any"
    /\ delivered' = << >>
    /\ UNCHANGED <<cfgvars, dvars, thrvars, short_fill>>

RAInvalidateCache(offset, length, fail) ==
    /\ target = "readahead"
    /\ LET r == InvalidateCache(RA, offset, length, fail)
       IN /\ SetRA(r.st)
          /\ last' = [op |-> "InvalidateCache", n |-> 0, ok |-> r.ok, res |-> << >>,
                      io |-> r.io, fill |-> -1, path |-> "none"]
    /\ hist' = "any"
    /\ delivered' = << >>
    /\ short_fill' = FALSE
    /\ UNCHANGED <<cfgvars, dvars, thrvars>>

RAPositionedRead(offset, n, fail) ==
    /\ target = "readahead"
    /\ LET r == PositionedRead(RA, offset, n, fail)
       IN /\ SetRA(r.st)
          /\ last' = [op |-> "PositionedRead", n |-> n, ok |-> r.ok, res |-> r.res,
                      io |-> r.io, fill |-> -1, path |-> "none"]
    /\ UNCHANGED <<cfgvars, dvars, thrvars, delivered, hist, short_fill>>

\* SequentialFileReader::Read, lines 33-60.
SFRRead(n, fail) ==
    /\ target = "reader"
    /\ offset_ + n <= MaxOffset
    /\ IF direct_io
       THEN LET f == FetchAdd(offset_, n)
                r == DirectRead(f.old, n, fail)
            IN /\ offset_' = f.new
               /\ raw_pos' = raw_pos
               /\ last' = [op |-> "SFRRead", n |-> n, ok |-> r.ok, res |-> r.res,
                           io |-> r.io, fill |-> -1, path |-> "none"]
       ELSE LET r == FileRead(raw_pos, n, fail)
            IN /\ offset_' = offset_
               /\ raw_pos' = r.pos
               /\ last' = [op |-> "SFRRead", n |-> n, ok |-> r.ok, res |-> r.data,
                           io |-> <<IoCall("Read", n, 0)>>, fill |-> -1, path |-> "none"]
    /\ UNCHANGED <<cfgvars, ravars, thrvars, delivered, hist, short_fill>>

\* SequentialFileReader::Skip, lines 62-70.
SFRSkip(n, fail) ==
    /\ target = "reader"
    /\ offset_ + n <= MaxOffset
    /\ raw_pos + n <= MaxOffset
    /\ (fail => ~direct_io)
    /\ IF direct_io
       THEN /\ offset_' = FetchAdd(offset_, n).new
            /\ raw_pos' = raw_pos
            /\ last' = [op |-> "SFRSkip", n |-> n, ok |-> TRUE, res |-> << >>,
                        io |-> << >>, fill |-> -1, path |-> "none"]
       ELSE LET r == FileSkip(raw_pos, n, fail)
            IN /\ offset_' = offset_
               /\ raw_pos' = r.pos
               /\ last' = [op |-> "SFRSkip", n |-> n, ok |-> r.ok, res |-> << >>,
                           io |-> <<IoCall("Skip", n, 0)>>, fill |-> -1, path |-> "none"]
    /\ UNCHANGED <<cfgvars, ravars, thrvars, delivered, hist, short_fill>>

Next ==
    \/ \E n \in 0..MaxN, fail \in BOOLEAN : RARead(n, fail)
    \/ \E n \in 0..MaxN, fail \in BOOLEAN : RASkip(n, fail)
    \/ \E fail \in BOOLEAN : RAInvalidateCache(1, 2, fail)
    \/ \E o \in {0, 1}, fail \in BOOLEAN : RAPositionedRead(o, MaxN, fail)
    \/ \E n \in 0..MaxN, fail \in BOOLEAN : SFRRead(n, fail)
    \/ \E n \in 0..MaxN, fail \in BOOLEAN : SFRSkip(n, fail)

Spec == Init /\ [][Next]_vars

\* ------------------------------------ concurrent direct-I/O reads (threads)
InitDirect == InitReader /\ direct_io /\ FileSize = MaxFileLen /\ InitObjects

\* Read, line 37: the thread reserves [offset, offset + n).
DReserve(t, n) ==
    /\ pc[t] = "idle"
    /\ offset_ + n <= MaxOffset
    /\ Len(reserved) < MaxCalls
    /\ LET f == FetchAdd(offset_, n)
       IN /\ offset_' = f.new
          /\ call' = [call EXCEPT ![t] = [op |-> "Read", n |-> n, offset |-> f.old]]
          /\ reserved' = Append(reserved, [offset |-> f.old, n |-> n])
    /\ pc' = [pc EXCEPT ![t] = "reserved"]
    /\ UNCHANGED <<cfgvars, ravars, raw_pos, obsvars, local, snap, lock_>>

\* Read, lines 38-59: the aligned positioned read and the copy.
DPositionedRead(t, fail) ==
    /\ pc[t] = "reserved"
    /\ LET r == DirectRead(call[t].offset, call[t].n, fail)
       IN last' = [op |-> "SFRRead", n |-> call[t].n, ok |-> r.ok, res |-> r.res,
                   io |-> r.io, fill |-> -1, path |-> "none"]
    /\ pc' = [pc EXCEPT ![t] = "idle"]
    /\ call' = [call EXCEPT ![t] = NoCall]
    /\ UNCHANGED <<cfgvars, ravars, dvars, delivered, hist, short_fill, local, snap,
                   reserved, lock_>>

\* Skip, lines 64-67.
DSkip(t, n) ==
    /\ pc[t] = "idle"
    /\ offset_ + n <= MaxOffset
    /\ Len(reserved) < MaxCalls
    /\ LET f == FetchAdd(offset_, n)
       IN /\ offset_' = f.new
          /\ reserved' = Append(reserved, [offset |-> f.old, n |-> n])
    /\ UNCHANGED <<cfgvars, ravars, raw_pos, obsvars, pc, call, local, snap, lock_>>

NextDirect ==
    \/ \E t \in Threads, n \in 0..MaxN : DReserve(t, n)
    \/ \E t \in Threads, fail \in BOOLEAN : DPositionedRead(t, fail)
    \/ \E t \in Threads, n \in 1..MaxN : DSkip(t, n)

SpecDirect == InitDirect /\ [][NextDirect]_vars

\* ------------------------- concurrent calls on a ReadaheadSequentialFile
InitLocked == InitReadahead /\ FileSize = MaxFileLen /\ InitObjects

Unlock(t) ==
    /\ lock_' = 0
    /\ pc' = [pc EXCEPT ![t] = "idle"]
    /\ call' = [call EXCEPT ![t] = NoCall]
    /\ local' = [local EXCEPT ![t] = << >>]
    /\ snap' = [snap EXCEPT ![t] = << >>]

Returned(t, op, n, r) ==
    last' = [op |-> op, n |-> n, ok |-> r.ok, res |-> r.res, io |-> r.io,
             fill |-> r.fill, path |-> r.path]

\* Lines 96, 134, 166: a thread enters Read, Skip or InvalidateCache and takes
\* the lock.
LLock(t, op, n) ==
    /\ pc[t] = "idle"
    /\ LockFree(lock_)
    /\ read_offset_ + n <= MaxOffset
    /\ lock_' = t
    /\ pc' = [pc EXCEPT ![t] = op]
    /\ call' = [call EXCEPT ![t] = [op |-> op, n |-> n]]
    /\ snap' = [snap EXCEPT ![t] = RA]
    /\ UNCHANGED <<cfgvars, ravars, dvars, obsvars, local, reserved>>

\* Read, lines 98-109.
LReadCache(t) ==
    /\ pc[t] = "Read"
    /\ LET p == ReadCachePhase(RA, call[t].n)
       IN /\ SetRA(p.st)
          /\ IF p.done
             THEN /\ Returned(t, "Read", call[t].n,
                              [ok |-> TRUE, res |-> p.cached, io |-> << >>,
                               fill |-> -1, path |-> "cache"])
                  /\ delivered' = IF hist = "reads" THEN delivered \o p.cached ELSE << >>
                  /\ Unlock(t)
             ELSE /\ local' = [local EXCEPT ![t] = [cached |-> p.cached, n |-> p.n]]
                  /\ pc' = [pc EXCEPT ![t] = "ReadFile"]
                  /\ UNCHANGED <<last, delivered, lock_, call, snap>>
    /\ UNCHANGED <<cfgvars, dvars, hist, short_fill, reserved>>

\* Read, lines 111-130.
LReadFile(t, fail) ==
    /\ pc[t] = "ReadFile"
    /\ LET r == ReadFilePhase(RA, local[t].cached, local[t].n, fail)
       IN /\ SetRA(r.st)
          /\ Returned(t, "Read", call[t].n, r)
          /\ hist' = IF r.ok THEN hist ELSE "any"
          /\ delivered' = IF hist' = "reads" THEN delivered \o r.res ELSE << >>
    /\ Unlock(t)
    /\ UNCHANGED <<cfgvars, dvars, short_fill, reserved>>

\* Skip, lines 135-148.
LSkipCache(t) ==
    /\ pc[t] = "Skip"
    /\ LET p == SkipCachePhase(RA, call[t].n)
       IN /\ SetRA(p.st)
          /\ local' = [local EXCEPT ![t] = [n |-> p.n]]
    /\ pc' = [pc EXCEPT ![t] = "SkipFile"]
    /\ UNCHANGED <<cfgvars, dvars, obsvars, call, snap, reserved, lock_>>

\* Skip, lines 149-157.
LSkipFile(t, fail) ==
    /\ pc[t] = "SkipFile"
    /\ LET r == SkipFilePhase(RA, local[t].n, fail)
       IN /\ (fail => r.io # << >>)
          /\ SetRA(r.st)
          /\ Returned(t, "Skip", call[t].n,
                      [ok |-> r.ok, res |-> << >>, io |-> r.io, fill |-> -1,
                       path |-> "none"])
          /\ hist' = IF r.ok THEN Worse(hist, "readskip") ELSE "any"
    /\ delivered' = << >>
    /\ Unlock(t)
    /\ UNCHANGED <<cfgvars, dvars, short_fill, reserved>>

\* InvalidateCache, line 167.
LInvalidateClear(t) ==
    /\ pc[t] = "InvalidateCache"
    /\ SetRA(Clear(RA))
    /\ pc' = [pc EXCEPT ![t] = "InvalidateForward"]
    /\ UNCHANGED <<cfgvars, dvars, obsvars, call, local, snap, reserved, lock_>>

\* InvalidateCache, line 168.
LInvalidateForward(t, fail) ==
    /\ pc[t] = "InvalidateForward"
    /\ Returned(t, "InvalidateCache", 0,
                [ok |-> ~fail, res |-> << >>, io |-> <<IoCall("InvalidateCache", 0, 0)>>,
                 fill |-> -1, path |-> "none"])
    /\ hist' = "any"
    /\ delivered' = << >>
    /\ Unlock(t)
    /\ UNCHANGED <<cfgvars, ravars, dvars, short_fill, reserved>>

\* PositionedRead, lines 160-163: forwarded without the lock.
LPositionedRead(t, offset, n, fail) ==
    /\ pc[t] = "idle"
    /\ LET r == PositionedRead(RA, offset, n, fail)
       IN /\ SetRA(r.st)
          /\ last' = [op |-> "PositionedRead", n |-> n, ok |-> r.ok, res |-> r.res,
                      io |-> r.io, fill |-> -1, path |-> "none"]
    /\ UNCHANGED <<cfgvars, dvars, delivered, hist, short_fill, thrvars>>

NextLocked ==
    \/ \E t \in Threads, n \in 0..MaxN : LLock(t, "Read", n)
    \/ \E t \in Threads, n \in 0..MaxN : LLock(t, "Skip", n)
    \/ \E t \in Threads : LLock(t, "InvalidateCache", 0)
    \/ \E t \in Threads : LReadCache(t)
    \/ \E t \in Threads, fail \in BOOLEAN : LReadFile(t, fail)
    \/ \E t \in Threads : LSkipCache(t)
    \/ \E t \in Threads, fail \in BOOLEAN : LSkipFile(t, fail)
    \/ \E t \in Threads : LInvalidateClear(t)
    \/ \E t \in Threads, fail \in BOOLEAN : LInvalidateForward(t, fail)
    \/ \E t \in Threads : LPositionedRead(t, 1, MaxN, FALSE)

SpecLocked == InitLocked /\ [][NextLocked]_vars

\* ------------------------------------------- NewReadaheadSequentialFile
\* The constructor, lines 79-89.
ReadaheadSequentialFile(alignment, readahead_size) ==
    [readahead_size_ |-> Roundup(readahead_size, alignment),
     buffer_ |-> << >>, buffer_offset_ |-> 0, read_offset_ |-> 0]

\* Lines 229-240: the object handed back for a source of the given alignment.
NewReadaheadSequentialFile(alignment, readahead_size) ==
    IF Wrapped(alignment, readahead_size)
    THEN [target |-> "readahead",
          obj |-> ReadaheadSequentialFile(alignment, readahead_size)]
    ELSE [target |-> "source",
          obj |-> [readahead_size_ |-> 0, buffer_ |-> << >>, buffer_offset_ |-> 0,
                   read_offset_ |-> 0]]

\* A raw sequential source, before NewReadaheadSequentialFile is called on it.
InitNew ==
    /\ target = "source"
    /\ file_data \in {Content(len) : len \in 0..MaxFileLen}
    /\ alignment_ \in Alignments
    /\ readahead_size_ = 0
    /\ direct_io = FALSE
    /\ InitObjects

New(readahead_size) ==
    /\ target = "source" /\ last.op = "none"
    /\ LET r == NewReadaheadSequentialFile(alignment_, readahead_size)
       IN /\ target' = r.target
          /\ readahead_size_' = r.obj.readahead_size_
          /\ buffer_' = r.obj.buffer_
          /\ buffer_offset_' = r.obj.buffer_offset_
          /\ read_offset_' = r.obj.read_offset_
    /\ file_pos' = file_pos
    /\ last' = [op |-> "New", n |-> readahead_size, ok |-> TRUE, res |-> << >>,
                io |-> << >>, fill |-> -1, path |-> "none"]
    /\ UNCHANGED <<file_data, alignment_, direct_io, dvars, delivered, hist,
                   short_fill, thrvars>>

\* A Read on the object handed back when it is the source itself (line 235).
SourceRead(n) ==
    /\ target = "source" /\ last.op # "none"
    /\ LET r == FileRead(file_pos, n, FALSE)
       IN /\ file_pos' = r.pos
          /\ last' = [op |-> "Read", n |-> n, ok |-> r.ok, res |-> r.data,
                      io |-> <<IoCall("Read", n, 0)>>, fill |-> -1, path |-> "source"]
          /\ delivered' = delivered \o r.data
    /\ UNCHANGED <<cfgvars, read_offset_, buffer_offset_, buffer_, dvars, hist,
                   short_fill, thrvars>>

NextNew ==
    \/ \E readahead_size \in 0..MaxReadahead : New(readahead_size)
    \/ \E n \in 1..MaxN : SourceRead(n)
    \/ \E n \in 1..MaxN : RARead(n, FALSE)

SpecNew == InitNew /\ [][NextNew]_vars

\* ------------------------------------ a worked example at real sizes
ExAlignment == 512
ExReadahead == 1024
ExFileLen == 2000
ExampleReads == <<100, 500, 1000>>

\* Small decorators, and the decorator built for a source of alignment 512
\* and 2000 bytes with a readahead of 1024.
InitRule ==
    /\ target = "readahead"
    /\ direct_io = FALSE
    /\ \/ /\ file_data \in {Content(len) : len \in 0..MaxFileLen}
          /\ alignment_ \in Alignments
          /\ \E requested \in 1..MaxReadahead :
                /\ Wrapped(alignment_, requested)
                /\ readahead_size_ = Roundup(requested, alignment_)
       \/ /\ file_data = Content(ExFileLen)
          /\ alignment_ = ExAlignment
          /\ Wrapped(alignment_, ExReadahead)
          /\ readahead_size_ =
                ReadaheadSequentialFile(alignment_, ExReadahead).readahead_size_
    /\ InitObjects

RuleRead(n, fail) ==
    /\ alignment_ # ExAlignment
    /\ read_offset_ + n <= MaxOffset
    /\ ReadCall(n, fail)

ExampleRead(i) ==
    /\ alignment_ = ExAlignment
    /\ read_offset_ < FileSize
    /\ ReadCall(ExampleReads[i], FALSE)

NextRule ==
    \/ \E n \in 0..MaxN, fail \in BOOLEAN : RuleRead(n, fail)
    \/ \E i \in 1..Len(ExampleReads) : ExampleRead(i)

SpecRule == InitRule /\ [][NextRule]_vars

\* ------------------------------------------------------------------ claims
OnReadahead == target = "readahead"
OnDirectReader == target = "reader" /\ direct_io

\* C1 (cache transparency): while only successful Reads have been made on the
\* ReadaheadSequentialFile, the concatenation of their results is the prefix
\* of the file of the same length.
C1_CacheTransparency ==
    (OnReadahead /\ hist = "reads") => delivered = Bytes(file_data, 0, Len(delivered))

\* The whole file was delivered by Reads of which the last one took a part from
\* the cache and the rest from a refilled buffer.
C1_Witness ==
    /\ OnReadahead /\ hist = "reads"
    /\ FileSize = MaxFileLen /\ delivered = file_data
    /\ last.op = "Read" /\ last.path = "refill"
    /\ last.fill > 0 /\ Len(last.res) > last.fill

\* C2 (Skip/Read consistency): in a state reached by successful Reads and
\* Skips, Skip(k) then Read(n) returns the bytes of Read(k + n) without its
\* first k bytes, whenever k + n bytes remain from read_offset_.
C2_SkipReadConsistency ==
    (OnReadahead /\ hist # "any") =>
        \A k \in 0..MaxN, n \in 0..MaxN :
            read_offset_ + k + n <= FileSize =>
                LET a == Skip(RA, k, FALSE)
                    b == Read(a.st, n, FALSE)
                    c == Read(RA, k + n, FALSE)
                IN /\ a.ok /\ b.ok /\ c.ok
                   /\ Len(c.res) = k + n
                   /\ b.res = Bytes(c.res, k, k + n)

\* A Read has returned bytes after a Skip, and from here a Skip that leaves the
\* buffered range followed by a Read is possible within the file.
C2_Witness ==
    /\ OnReadahead /\ hist = "readskip"
    /\ last.op = "Read" /\ last.res # << >>
    /\ CurrentSize(RA) > 0 /\ read_offset_ < BufferEnd(RA)
    /\ BufferEnd(RA) + 2 <= FileSize

\* C3 (atomic failure), as claimed: a Read whose wrapped read fails delivers no
\* bytes and leaves read_offset_ where it was before the call.
C3_FailedReadAtomic ==
    [][(OnReadahead /\ last'.op = "Read" /\ ~last'.ok) =>
          (last'.res = << >> /\ read_offset_' = read_offset_)]_vars

\* C4 as claimed: under direct I/O a successful Read(n) advances offset_ by the
\* number of bytes it returns.
C4_AdvanceByReturned ==
    [][(OnDirectReader /\ last'.op = "SFRRead" /\ last'.ok) =>
          offset_' = offset_ + Len(last'.res)]_vars

\* C4 amended: under direct I/O Read(n) advances offset_ by the requested n,
\* never returns more than n bytes, and the advance equals the number of bytes
\* returned when the read succeeds and the request ends at or before
\* end-of-file.
C4_AdvanceByRequested ==
    [][(OnDirectReader /\ last'.op = "SFRRead") =>
          /\ offset_' = offset_ + last'.n
          /\ Len(last'.res) <= last'.n
          /\ (last'.ok /\ offset_ + last'.n <= FileSize) =>
                 offset_' = offset_ + Len(last'.res)]_vars

\* A direct-I/O Read that reached end-of-file: fewer bytes than requested were
\* returned and offset_ is now past the end of the file.
C4_Witness ==
    /\ OnDirectReader /\ last.op = "SFRRead" /\ last.ok
    /\ last.res # << >> /\ Len(last.res) < last.n
    /\ offset_ > FileSize

\* C5: under direct I/O a successful Read(n) at logical offset o returns the
\* bytes [o, min(o + n, F)) of the file, and nothing when o >= F.
C5_DirectReadBytes ==
    [][(OnDirectReader /\ last'.op = "SFRRead" /\ last'.ok) =>
          /\ last'.res = Bytes(file_data, offset_, Min(offset_ + last'.n, FileSize))
          /\ (offset_ >= FileSize => last'.res = << >>)]_vars

\* A direct-I/O Read that started at an unaligned offset and returned several
\* bytes, the last of them the last byte of the file.
C5_Witness ==
    /\ OnDirectReader /\ last.op = "SFRRead" /\ last.ok
    /\ alignment_ = 2 /\ (offset_ - last.n) % 2 = 1
    /\ Len(last.res) > 1 /\ last.res[Len(last.res)] = FileSize

\* Two reserved ranges share no byte.
Disjoint(r1, r2) ==
    \/ r1.n = 0 \/ r2.n = 0
    \/ r1.offset + r1.n <= r2.offset
    \/ r2.offset + r2.n <= r1.offset

RECURSIVE SumN(_)
SumN(s) == IF s = << >> THEN 0 ELSE Head(s).n + SumN(Tail(s))

\* The ranges reserved so far are pairwise disjoint, cover [0, offset_) and
\* their lengths add up to offset_.
ReservedTiles ==
    /\ \A i, j \in 1..Len(reserved) : i # j => Disjoint(reserved[i], reserved[j])
    /\ \A p \in 0..(offset_ - 1) :
          \E i \in 1..Len(reserved) :
              reserved[i].offset <= p /\ p < reserved[i].offset + reserved[i].n
    /\ offset_ = SumN(reserved)

\* A thread's successful Read returns the file bytes of the range it reserved.
ReadsOwnRange ==
    \A t \in Threads :
        (pc[t] = "reserved" /\ pc'[t] = "idle" /\ last'.ok) =>
            last'.res = Bytes(file_data, call[t].offset,
                              Min(call[t].offset + call[t].n, FileSize))

\* C6: in every interleaving of direct-I/O Reads and Skips the reserved ranges
\* are pairwise disjoint, tile [0, offset_) and sum to offset_, and each Read
\* returns the bytes of its own range.
C6_DisjointReservations == []ReservedTiles /\ [][ReadsOwnRange]_vars

\* Both threads are between their reservation and their positioned read, after
\* an earlier call, and the second range ends past the end of the file.
C6_Witness ==
    /\ pc[1] = "reserved" /\ pc[2] = "reserved"
    /\ call[1].n > 1 /\ call[2].n > 1
    /\ Len(reserved) = 3
    /\ offset_ > FileSize

InCall(t) == pc[t] # "idle"

\* At most one thread is inside Read, Skip or InvalidateCache, and it is the
\* holder of lock_.
MutualExclusion ==
    /\ Cardinality({t \in Threads : InCall(t)}) <= 1
    /\ \A t \in Threads : InCall(t) => lock_ = t
    /\ lock_ # 0 => InCall(lock_)

\* A call that returns leaves the object and its result as the whole call,
\* run alone from the state found when the lock was taken, leaves them.
SerialOutcome ==
    \A t \in Threads :
        (InCall(t) /\ pc'[t] = "idle") =>
            \E fail \in BOOLEAN :
                /\ last'.op = call[t].op
                /\ CASE call[t].op = "Read" ->
                          LET r == Read(snap[t], call[t].n, fail)
                          IN RA' = r.st /\ last'.ok = r.ok /\ last'.res = r.res
                     [] call[t].op = "Skip" ->
                          LET r == Skip(snap[t], call[t].n, fail)
                          IN RA' = r.st /\ last'.ok = r.ok
                     [] OTHER ->
                          LET r == InvalidateCache(snap[t], 0, 0, fail)
                          IN RA' = r.st /\ last'.ok = r.ok

\* C7: Read, Skip and InvalidateCache exclude each other, every call has the
\* effect and the result of running alone at the moment it took the lock, and
\* concurrent Reads return consecutive pieces of the file.
C7_LockSerializes ==
    /\ []MutualExclusion
    /\ [][SerialOutcome]_vars
    /\ []((hist = "reads") => delivered = Bytes(file_data, 0, Len(delivered)))

\* Thread 2 holds the lock in the middle of a Read that took bytes from the
\* cache and goes on to the wrapped source, after earlier Reads returned bytes.
C7_Witness ==
    /\ lock_ = 2 /\ pc[2] = "ReadFile" /\ pc[1] = "idle"
    /\ local[2].cached # << >>
    /\ hist = "reads" /\ delivered # << >>
    /\ snap[2].read_offset_ < read_offset_

\* C8 (monotonic cursor): no call decreases read_offset_ or offset_.
C8_MonotonicCursor ==
    [][read_offset_' >= read_offset_ /\ offset_' >= offset_]_vars

\* A Read failed after the cursor had moved, following an invalidation or an
\* earlier failure.
C8_Witness ==
    /\ OnReadahead /\ hist = "any"
    /\ last.op = "Read" /\ ~last.ok
    /\ read_offset_ > buffer_offset_ /\ buffer_offset_ > 0

\* C9 (EOF short-circuit): after a fill that returned fewer than
\* readahead_size_ bytes and until InvalidateCache, a Read whose read_offset_
\* lies in the buffered range returns min(n, cached bytes left) bytes of the
\* buffer with OK status and calls the wrapped source not at all.
C9_EofShortCircuit ==
    [][(OnReadahead /\ short_fill /\ ~CacheMiss(RA) /\ last'.op = "Read") =>
          LET from == read_offset_ - buffer_offset_
              len == Min(last'.n, Len(buffer_) - from)
          IN /\ last'.ok /\ last'.io = << >>
             /\ last'.res = Bytes(buffer_, from, from + len)
             /\ short_fill']_vars

\* After a short fill, a Read asked for more than the buffer held and returned
\* the cached bytes alone without a wrapped read.
C9_Witness ==
    /\ OnReadahead /\ short_fill
    /\ last.op = "Read" /\ last.ok /\ last.io = << >>
    /\ last.res # << >> /\ Len(last.res) < last.n

\* What a Read(n) takes from the cache in the current state (line 185).
CachedLen(n) ==
    IF buffer_offset_ <= read_offset_ /\ read_offset_ < buffer_offset_ + Len(buffer_)
    THEN Min(buffer_offset_ + Len(buffer_) - read_offset_, n) ELSE 0

\* The result of a bypassing Read(n): the cached prefix, then the bytes of one
\* wrapped Read of the remainder; the buffer is left empty.
BypassOutcome(n) ==
    LET cached_len == CachedLen(n)
        remaining == n - cached_len
        from == read_offset_ - buffer_offset_
        direct == Bytes(file_data, file_pos, Min(file_pos + remaining, FileSize))
    IN /\ buffer_' = << >>
       /\ last'.io = <<IoCall("Read", remaining, 0)>>
       /\ last'.ok =>
             /\ last'.res = Bytes(buffer_, from, from + cached_len) \o direct
             /\ read_offset_' = read_offset_ + Len(last'.res)

\* C10 as claimed: every Read(n) whose need left after the cache copy,
\* remaining, has remaining + alignment >= readahead_size bypasses the buffer.
C10_BypassAlways ==
    [][(OnReadahead /\ last'.op = "Read"
          /\ (last'.n - CachedLen(last'.n)) + alignment_ >= readahead_size_) =>
          BypassOutcome(last'.n)]_vars

\* C10 amended: such a Read bypasses the buffer unless it hit a buffer holding
\* fewer than readahead_size bytes (then it has returned at the short-circuit).
C10_BypassCorrect ==
    [][(OnReadahead /\ last'.op = "Read"
          /\ (last'.n - CachedLen(last'.n)) + alignment_ >= readahead_size_
          /\ ~(CachedLen(last'.n) > 0 /\ Len(buffer_) < readahead_size_)) =>
          BypassOutcome(last'.n)]_vars

\* A successful bypassing Read that took a prefix from the cache and bytes
\* from the wrapped source.
C10_Witness ==
    /\ OnReadahead /\ last.op = "Read" /\ last.ok /\ last.path = "bypass"
    /\ last.io[1].a < last.n
    /\ Len(last.res) > last.n - last.io[1].a
    /\ buffer_ = << >>

\* C11 (construction bypass): NewReadaheadSequentialFile hands back the source
\* itself exactly when the requested size is <= the alignment; otherwise a
\* decorator whose readahead_size_ is the requested size rounded up to a
\* multiple of the alignment (>= the requested size, > the alignment), with an
\* empty buffer, both offsets 0 and no read issued on the source.
C11_ConstructionBypass ==
    [][(last.op = "none" /\ last'.op = "New") =>
          LET requested == last'.n
          IN /\ (target' = "source") <=> (requested <= alignment_)
             /\ target' \in {"source", "readahead"}
             /\ target' = "readahead" =>
                   /\ readahead_size_' % alignment_ = 0
                   /\ readahead_size_' >= requested
                   /\ readahead_size_' < requested + alignment_
                   /\ readahead_size_' >= alignment_
                   /\ readahead_size_' > alignment_
                   /\ buffer_' = << >> /\ buffer_offset_' = 0 /\ read_offset_' = 0
             /\ last'.io = << >> /\ file_pos' = file_pos]_vars

\* A decorator has just been built whose readahead_size_ is larger than the
\* size asked for.
C11_Witness ==
    /\ last.op = "New" /\ target = "readahead"
    /\ readahead_size_ > last.n /\ last.n > alignment_

\* Power-of-two alignments for which the range arithmetic is checked.
PageSizes == {1, 2, 4, 8}

\* C12 (alignment correctness): the range a direct-I/O Read(n) at logical
\* offset o passes to PositionedRead starts at or before o, ends at or after
\* o + n, has start and length multiples of the alignment, and o lies less
\* than one alignment past its start; the same holds of the range computed
\* for o and n under every power-of-two alignment of PageSizes.
C12_AlignedRange ==
    [][(OnDirectReader /\ last'.op = "SFRRead") =>
          /\ last'.io = <<IoCall("PositionedRead",
                                 AlignedRange(offset_, last'.n, alignment_).aligned_offset,
                                 AlignedRange(offset_, last'.n, alignment_).size)>>
          /\ \A a \in PageSizes :
                LET o == offset_
                    n == last'.n
                    r == AlignedRange(o, n, a)
                IN /\ r.aligned_offset <= o
                   /\ r.aligned_offset + r.size >= o + n
                   /\ r.aligned_offset % a = 0
                   /\ r.size % a = 0
                   /\ r.offset_advance = o - r.aligned_offset
                   /\ r.offset_advance >= 0 /\ r.offset_advance < a]_vars

\* A direct-I/O Read at an offset that is no multiple of the alignment, whose
\* range was widened at both ends.
C12_Witness ==
    /\ OnDirectReader /\ last.op = "SFRRead" /\ alignment_ > 1
    /\ last.io[1].a < offset_ - last.n
    /\ last.io[1].a + last.io[1].b > offset_
    /\ last.n > 0

\* C13 as claimed: the buffer holds the bytes of the wrapped source at file
\* offsets [buffer_offset_, buffer_offset_ + CurrentSize).
C13_BufferValid ==
    OnReadahead => buffer_ = Bytes(file_data, buffer_offset_, buffer_offset_ + Len(buffer_))

\* C14 as claimed: after a fill that returned fewer than readahead_size_ bytes
\* and until InvalidateCache, no Read calls the wrapped source.
C14_NoReadAfterShortFill ==
    [][(OnReadahead /\ short_fill /\ last'.op = "Read") => last'.io = << >>]_vars

\* C14 amended: after such a fill and until InvalidateCache, a Read calls the
\* wrapped source not at all while read_offset_ lies in the buffered range;
\* once the cached bytes are consumed or the buffer was cleared, every Read
\* makes exactly one wrapped Read, which on success supplies no byte.
C14_ReadAfterConsumed ==
    [][(OnReadahead /\ short_fill /\ last'.op = "Read") =>
          IF buffer_offset_ <= read_offset_
                /\ read_offset_ < buffer_offset_ + Len(buffer_)
          THEN last'.io = << >> /\ last'.ok
          ELSE /\ Len(last'.io) = 1 /\ last'.io[1].call = "Read"
               /\ last'.ok => last'.res = << >>
               /\ short_fill']_vars

\* After a short fill whose bytes were all delivered, a further Read went to
\* the wrapped source and returned nothing.
C14_Witness ==
    /\ OnReadahead /\ short_fill /\ hist = "reads"
    /\ delivered = file_data /\ FileSize > 0
    /\ last.op = "Read" /\ last.ok /\ last.res = << >> /\ last.n > 0
    /\ Len(last.io) = 1

\* The wrapped reads a Read(n) makes, by the rule of lines 103-123.
ReadRule ==
    (OnReadahead /\ last'.op = "Read") =>
        LET n == last'.n
            hit == buffer_offset_ <= read_offset_
                      /\ read_offset_ < buffer_offset_ + Len(buffer_)
            cached_len == CachedLen(n)
            remaining == n - cached_len
        IN /\ Len(last'.io) <= 1
           /\ IF hit /\ (cached_len = n \/ Len(buffer_) < readahead_size_)
              THEN last'.io = << >>
              ELSE IF remaining + alignment_ >= readahead_size_
              THEN last'.io = <<IoCall("Read", remaining, 0)>>
              ELSE /\ last'.io = <<IoCall("Read", readahead_size_, 0)>>
                   /\ last'.ok => buffer_offset_' = read_offset_ + cached_len

\* Read(100), Read(500), Read(1000) on a new decorator of alignment 512 and
\* readahead 1024 over 2000 bytes.
ExampleTrace ==
    (alignment_ = ExAlignment /\ readahead_size_ = ExReadahead
        /\ FileSize = ExFileLen) =>
        LET st0 == [read_offset_ |-> 0, buffer_offset_ |-> 0, buffer_ |-> << >>,
                    file_pos |-> 0]
            r1 == Read(st0, ExampleReads[1], FALSE)
            r2 == Read(r1.st, ExampleReads[2], FALSE)
            r3 == Read(r2.st, ExampleReads[3], FALSE)
        IN /\ r1.ok /\ r1.io = <<IoCall("Read", 1024, 0)>>
           /\ r1.res = Bytes(file_data, 0, 100)
           /\ r2.ok /\ r2.io = << >>
           /\ r2.res = Bytes(file_data, 100, 600)
           /\ r3.ok /\ r3.io = <<IoCall("Read", 576, 0)>>
           /\ r3.res = Bytes(file_data, 600, 1600)

\* C15: every Read makes at most one wrapped read: none when the cache hit
\* supplied all n bytes or the hit buffer is shorter than readahead_size_;
\* else one Read(remaining) when remaining + alignment >= readahead_size_;
\* else one fill Read(readahead_size_), after which (when it succeeds)
\* buffer_offset_ is the read_offset_ held at the fill.  With alignment 512,
\* readahead 1024 and 2000 bytes, Read(100), Read(500), Read(1000) make a
\* 1024-byte fill, no read and a 576-byte read, and return [0,100), [100,600)
\* and [600,1600).
C15_OneWrappedRead == [][ReadRule]_vars /\ []ExampleTrace

\* The third Read of the example has returned: 424 bytes from the buffer and
\* 576 from the wrapped read.
C15_Witness ==
    /\ alignment_ = ExAlignment /\ readahead_size_ = ExReadahead
    /\ hist = "reads" /\ Len(delivered) = 1600
    /\ last.op = "Read" /\ last.n = 1000 /\ last.path = "bypass"
    /\ last.io = <<IoCall("Read", 576, 0)>>
    /\ buffer_ = << >> /\ read_offset_ = 1600

\* What Skip(n) does when the buffered range is taken to end at `end`.
SkipOutcome(end) ==
    LET n == last'.n
        remainder == n - (end - read_offset_)
    IN IF read_offset_ + n < end
       THEN /\ read_offset_' = read_offset_ + n
            /\ last'.io = << >> /\ last'.ok
            /\ buffer_' = buffer_ /\ buffer_offset_' = buffer_offset_
       ELSE IF remainder > 0
       THEN /\ last'.io = <<IoCall("Skip", remainder, 0)>>
            /\ read_offset_' = end + (IF last'.ok THEN remainder ELSE 0)
            /\ buffer_' = << >>
       ELSE /\ last'.io = << >> /\ last'.ok
            /\ read_offset_' = end
            /\ buffer_' = buffer_

\* C16 as claimed: Skip(n) inside the buffered range only adds n to
\* read_offset_; otherwise read_offset_ is set to buffer_offset_ + CurrentSize
\* and the remainder n - (buffer_offset_ + CurrentSize - read_offset_) is
\* forwarded when > 0, added on success, and the buffer is cleared.
C16_SkipAsClaimed ==
    [][(OnReadahead /\ last'.op = "Skip") =>
          SkipOutcome(buffer_offset_ + Len(buffer_))]_vars

\* C16 amended: the above holds when the buffer holds bytes; with an empty
\* buffer read_offset_ is not moved by the buffer part and the whole n is
\* forwarded when > 0.
C16_SkipCorrect ==
    [][(OnReadahead /\ last'.op = "Skip") =>
          SkipOutcome(IF Len(buffer_) > 0 THEN buffer_offset_ + Len(buffer_)
                      ELSE read_offset_)]_vars

\* A Skip left the buffered range and the wrapped Skip of the remainder
\* failed: read_offset_ is at the end of the range that was buffered and the
\* buffer is empty.
C16_Witness ==
    /\ OnReadahead /\ last.op = "Skip" /\ ~last.ok
    /\ Len(last.io) = 1 /\ last.io[1].a < last.n
    /\ buffer_ = << >> /\ read_offset_ > buffer_offset_

\* InvalidateCache and PositionedRead as operations on the current state, for
\* arguments at both ends of the bounds and either status of the wrapped source.
ForwardedVerbatim ==
    OnReadahead =>
        \A offset \in {0, 1, MaxOffset}, n \in {0, MaxN}, fail \in BOOLEAN :
            LET i == InvalidateCache(RA, offset, n, fail)
                p == PositionedRead(RA, offset, n, fail)
                f == FilePositionedRead(offset, n, fail)
            IN /\ i.st.buffer_ = << >>
               /\ i.st.read_offset_ = read_offset_
               /\ i.st.buffer_offset_ = buffer_offset_
               /\ i.io = <<IoCall("InvalidateCache", offset, n)>>
               /\ i.ok = ~fail
               /\ p.st = RA
               /\ p.io = <<IoCall("PositionedRead", offset, n)>>
               /\ p.ok = f.ok /\ p.res = f.data

\* The calls as the client makes them.
InvalidateFrame ==
    OnReadahead =>
        /\ last'.op = "InvalidateCache" =>
              /\ buffer_' = << >>
              /\ read_offset_' = read_offset_ /\ buffer_offset_' = buffer_offset_
              /\ Len(last'.io) = 1 /\ last'.io[1].call = "InvalidateCache"
        /\ last'.op = "PositionedRead" =>
              /\ UNCHANGED <<read_offset_, buffer_offset_, buffer_, file_pos, lock_>>
              /\ Len(last'.io) = 1 /\ last'.io[1].call = "PositionedRead"
              /\ last'.io[1].b = last'.n

\* C17: InvalidateCache(offset, length) empties the buffer whatever the
\* wrapped source returns, forwards the same (offset, length), returns the
\* wrapped status and leaves read_offset_ and buffer_offset_ alone;
\* PositionedRead(offset, n) is forwarded verbatim, takes no lock and leaves
\* read_offset_, buffer_offset_ and the buffer alone.
C17_InvalidateAndPositionedRead == []ForwardedVerbatim /\ [][InvalidateFrame]_vars

\* InvalidateCache has just emptied a buffer that held undelivered bytes
\* although the wrapped source reported a failure.
C17_Witness ==
    /\ OnReadahead /\ last.op = "InvalidateCache" /\ ~last.ok
    /\ last.io = <<IoCall("InvalidateCache", 1, 2)>>
    /\ buffer_ = << >> /\ file_pos > read_offset_ /\ read_offset_ > 0

\* C18: under direct I/O offset_ changes only by Read and Skip, each adding
\* exactly the requested n whatever the raw source returns (short, empty or
\* failed read); Skip makes no call on the raw source and returns OK.  Without
\* direct I/O Read and Skip are forwarded unchanged to the raw source and
\* offset_ is never modified.
C18_LogicalOffset ==
    [][/\ last'.op \notin {"SFRRead", "SFRSkip"} => offset_' = offset_
       /\ (target = "reader" /\ direct_io) =>
             /\ last'.op \in {"SFRRead", "SFRSkip"} =>
                   offset_' = offset_ + last'.n /\ raw_pos' = raw_pos
             /\ last'.op = "SFRRead" =>
                   Len(last'.io) = 1 /\ last'.io[1].call = "PositionedRead"
             /\ last'.op = "SFRSkip" => last'.io = << >> /\ last'.ok
       /\ (target = "reader" /\ ~direct_io) =>
             /\ offset_' = offset_
             /\ last'.op = "SFRRead" =>
                   /\ last'.io = <<IoCall("Read", last'.n, 0)>>
                   /\ last'.ok =>
                         /\ last'.res = Bytes(file_data, raw_pos,
                                               Min(raw_pos + last'.n, FileSize))
                         /\ raw_pos' = raw_pos + Len(last'.res)
                   /\ ~last'.ok => raw_pos' = raw_pos
             /\ last'.op = "SFRSkip" =>
                   /\ last'.io = <<IoCall("Skip", last'.n, 0)>>
                   /\ raw_pos' = raw_pos + (IF last'.ok THEN last'.n ELSE 0)]_vars

\* A direct-I/O Read past the end of the file failed, and offset_ has moved
\* on by its n all the same.
C18_Witness ==
    /\ OnDirectReader /\ last.op = "SFRRead" /\ ~last.ok
    /\ last.n > 0 /\ offset_ - last.n > FileSize

\* Read and Skip as operations on the current state, for every n and either
\* status of the wrapped source: at most one wrapped call, the call fails
\* exactly when its wrapped call failed, and an OK Read returns the cached
\* prefix and what the wrapped read or the refilled buffer supplied.
OneCallNoRetry ==
    OnReadahead =>
        \A n \in 0..MaxN, fail \in BOOLEAN :
            LET r == Read(RA, n, fail)
                k == Skip(RA, n, fail)
                cached_len == CachedLen(n)
                remaining == n - cached_len
                avail == IF file_pos < FileSize THEN FileSize - file_pos ELSE 0
                supplied == IF r.io = << >> THEN 0
                            ELSE Min(remaining, Min(r.io[1].a, avail))
            IN /\ Len(r.io) <= 1 /\ Len(k.io) <= 1
               /\ r.ok <=> ~(fail /\ r.io # << >>)
               /\ k.ok <=> ~(fail /\ k.io # << >>)
               /\ r.ok => Len(r.res) = cached_len + supplied
               /\ ~r.ok => r.res = << >>

\* The calls as the client makes them.
FailureReturned ==
    (OnReadahead /\ last'.op \in {"Read", "Skip"} /\ ~last'.ok) =>
        Len(last'.io) = 1 /\ last'.res = << >>

\* C19: a failure of the wrapped source during Read or Skip is the status of
\* that call, after exactly one wrapped call; an OK Read returns cached_len
\* bytes plus the bytes the wrapped read or the refilled buffer supplied, and
\* a failed Read returns no result built from the cached prefix.
C19_FailurePropagates == []OneCallNoRetry /\ [][FailureReturned]_vars

\* A Read took bytes from the buffer, its fill of the buffer failed, and it
\* returned the failure with no bytes.
C19_Witness ==
    /\ OnReadahead /\ last.op = "Read" /\ ~last.ok /\ last.path = "refill"
    /\ last.res = << >> /\ buffer_ # << >>
    /\ read_offset_ = buffer_offset_ + Len(buffer_)

\* The offsets and the buffer of a ReadaheadSequentialFile.
Structure ==
    OnReadahead =>
        /\ buffer_offset_ <= read_offset_
        /\ Len(buffer_) <= readahead_size_ /\ readahead_size_ = Capacity
        /\ Len(buffer_) > 0 => read_offset_ <= buffer_offset_ + Len(buffer_)
        /\ readahead_size_ % alignment_ = 0

\* The size a fill passes to the wrapped source (the assertion of line 199).
FillAligned ==
    (OnReadahead /\ last'.op = "Read" /\ last'.path = "refill") =>
        /\ last'.io[1].a % alignment_ = 0
        /\ last'.io[1].a = readahead_size_

\* C20: in every reachable state, failed wrapped calls included,
\* buffer_offset_ <= read_offset_, CurrentSize <= readahead_size_ = capacity,
\* read_offset_ <= buffer_offset_ + CurrentSize when the buffer holds bytes
\* (the subtractions of Skip and of the cache copy do not underflow), and the
\* size of every fill is a multiple of the alignment.
C20_Structure == []Structure /\ [][FillAligned]_vars

\* After an invalidation or a failed call, a Read refilled the buffer at an
\* offset > 0 and delivered a part of it.
C20_Witness ==
    /\ OnReadahead /\ hist = "any"
    /\ last.op = "Read" /\ last.path = "refill" /\ last.ok
    /\ buffer_offset_ > 0 /\ read_offset_ > buffer_offset_
    /\ read_offset_ < buffer_offset_ + Len(buffer_)

====
